---------------------------- MODULE Spec2Model ----------------------------
(***************************************************************************)
(* Model of the record layer of the Relay store: the exported record       *)
(* implementation ReasonRecordDict (RelayModernRecord.js resolves to it),  *)
(* its value conversions, and the calls a client makes on records.         *)
(*                                                                         *)
(* A JavaScript value is a tagged record (JNull, JStr, JObj, ...).  A       *)
(* Reason `value` is a tagged record too (Null, String, Ref, ...) whose     *)
(* payload is the JavaScript value the constructor wraps.  A record is a    *)
(* Js.Dict: a function from the keys it holds to Reason values.  Records    *)
(* live in `heap`; a reference to a record is its index, so that "the same  *)
(* record" and "an equal record" are different things.                      *)
(***************************************************************************)
EXTENDS Naturals, Sequences, FiniteSets, TLC

VARIABLES heap, last, obs, calls, frozenRefs, source, mapHeap, mapOut

vars == <<heap, last, obs, calls, frozenRefs, source, mapHeap, mapOut>>

(***************************************************************************)
(* Bounds of the model.                                                    *)
(***************************************************************************)
MaxRecords == 3
MaxCalls == 4
MaxValueRecords == 1
MaxValueWrites == 1

(***************************************************************************)
(* module Keys                                                             *)
(***************************************************************************)
id_key == "__id"
ref_key == "__ref"
refs_key == "__refs"
typename_key == "__typename"
invalidated_at_key == "__invalidated_at"
frozen_key == "__frozen"

(***************************************************************************)
(* JavaScript values, as the callers of the record functions pass them.    *)
(***************************************************************************)
JNull == [t |-> "null"]
JUndefined == [t |-> "undefined"]
JStr(s) == [t |-> "string", s |-> s]
\* A number: n when int, n + 1/2 otherwise.
JInt(n) == [t |-> "number", n |-> n, int |-> TRUE]
JFloat(n) == [t |-> "number", n |-> n, int |-> FALSE]
JBool(b) == [t |-> "boolean", b |-> b]
JArr(a) == [t |-> "array", a |-> a]
JObj(f) == [t |-> "object", f |-> f]

\* typeof: an array and null are "object".
typeof(j) ==
  CASE j.t = "null" -> "object"
    [] j.t = "array" -> "object"
    [] OTHER -> j.t

isInteger(j) == j.t = "number" /\ j.int

(***************************************************************************)
(* Js.Dict and option.  None is <<>>, Some(v) is <<v>>.                    *)
(***************************************************************************)
None == <<>>
Some(v) == <<v>>

Dict_empty == [k \in {} |-> JNull]

Dict_get(d, k) == IF k \in DOMAIN d THEN Some(d[k]) ELSE None

Dict_set(d, k, v) == [x \in DOMAIN d \cup {k} |-> IF x = k THEN v ELSE d[x]]

\* The keys of the model, in one fixed order: Js.Dict.entries walks a
\* dictionary in its property order, and no result below depends on it.
KeyOrder ==
  <<id_key, typename_key, frozen_key, invalidated_at_key, "name", "pet">>

Dict_keys(d) == SelectSeq(KeyOrder, LAMBDA k : k \in DOMAIN d)

\* `"__ref" in obj` on a JavaScript value whose typeof is "object".
Js_in(j, k) == j.t = "object" /\ k \in DOMAIN j.f

(***************************************************************************)
(* type value                                                              *)
(***************************************************************************)
Null == [tag |-> "Null"]
Undefined == [tag |-> "Undefined"]
String(v) == [tag |-> "String", v |-> v]
Int(v) == [tag |-> "Int", v |-> v]
Float(v) == [tag |-> "Float", v |-> v]
Bool(v) == [tag |-> "Bool", v |-> v]
Ref(v) == [tag |-> "Ref", v |-> v]
Refs(v) == [tag |-> "Refs", v |-> v]
Custom(v) == [tag |-> "Custom", v |-> v]

\* A raised exception: its class and the parts of its message.
Raise(class, msg) == [raised |-> class, msg |-> msg]
Return(v) == [ret |-> v]
IsRaise(x) == "raised" \in DOMAIN x

\* typeof never answers "array", so an array takes the "object" branch, where
\* neither key is `in` it.
transformValueFromObj(valueObj) ==
  CASE typeof(valueObj) = "string" -> String(valueObj)
    [] typeof(valueObj) = "boolean" -> Bool(valueObj)
    [] typeof(valueObj) = "number" ->
         IF isInteger(valueObj) THEN Int(valueObj) ELSE Float(valueObj)
    [] typeof(valueObj) = "object" ->
         LET hasRef == Js_in(valueObj, ref_key)
             hasRefs == Js_in(valueObj, refs_key)
         IN  IF hasRef /\ ~hasRefs THEN Ref(valueObj.f[ref_key])
             ELSE IF ~hasRef /\ hasRefs THEN Refs(valueObj.f[refs_key])
             ELSE Custom(valueObj)
    [] OTHER -> Raise("TypeError", <<"Unhandled value type", typeof(valueObj)>>)

\* transformValueToObj with undefined written as null.
transformValueToObj_undefinedAsNull(value) ==
  CASE value.tag \in {"Null", "Undefined"} -> JNull
    [] value.tag = "Ref" -> JObj([k \in {ref_key} |-> value.v])
    [] value.tag = "Refs" -> JObj([k \in {refs_key} |-> value.v])
    [] OTHER -> value.v

transformValueToObj(value) ==
  CASE value.tag = "Null" -> JNull
    [] value.tag = "Undefined" -> JUndefined
    [] value.tag = "Ref" -> JObj([k \in {ref_key} |-> value.v])
    [] value.tag = "Refs" -> JObj([k \in {refs_key} |-> value.v])
    [] OTHER -> value.v


(***************************************************************************)
(* isClientID: the ids /^client:/ matches.                                 *)
(***************************************************************************)
ClientIDStrings == {"client:4", "client:42"}

isClientID(id) == id.t = "string" /\ id.s \in ClientIDStrings

(***************************************************************************)
(* module ReasonRecordDict                                                 *)
(***************************************************************************)
\* clone as a copy of every entry, the frozen marker included.
clone_keepsFrozenMarker(r) == r

clone(r) == [k \in DOMAIN r \ {frozen_key} |-> r[k]]

\* copyFields that copies the id and the type as well.
copyFields_withIdentity(a, b) ==
  [k \in DOMAIN b \cup DOMAIN a |-> IF k \in DOMAIN a THEN a[k] ELSE b[k]]

\* The new contents of the sink b.
copyFields(a, b) ==
  LET copied == DOMAIN a \ {id_key, typename_key}
  IN  [k \in DOMAIN b \cup copied |-> IF k \in copied THEN a[k] ELSE b[k]]

\* create that stores a numeric id as the number it is given.
create_keepsNumber(dataId, typename) ==
  Dict_set(Dict_set(Dict_empty, id_key, String(dataId)),
           typename_key, String(typename))

create(dataId, typename) ==
  LET id == IF typeof(dataId) = "number" THEN JStr(ToString(dataId.n))
            ELSE dataId
  IN  Dict_set(Dict_set(Dict_empty, id_key, String(id)),
               typename_key, String(typename))

freeze(r) == Dict_set(r, frozen_key, Bool(JBool(TRUE)))

isFrozen(r) ==
  LET f == Dict_get(r, frozen_key)
  IN  IF f # None /\ f[1].tag = "Bool" THEN f[1].v.b ELSE FALSE

getDataID(r) ==
  LET v == Dict_get(r, id_key)
  IN  IF v # None /\ v[1].tag = "String" THEN v[1].v ELSE JStr("")

getType(r) ==
  LET v == Dict_get(r, typename_key)
  IN  IF v # None /\ v[1].tag = "String" THEN v[1].v ELSE JStr("")

\* getInvalidationEpoch that returns any number stored, integer or not.
getInvalidationEpoch_anyNumber(r) ==
  IF r = None THEN JNull
  ELSE LET invalidated == Dict_get(r[1], invalidated_at_key)
       IN  IF invalidated # None /\ invalidated[1].tag \in {"Int", "Float"}
           THEN invalidated[1].v ELSE JNull

getInvalidationEpoch(r) ==
  IF r = None THEN JNull
  ELSE LET invalidated == Dict_get(r[1], invalidated_at_key)
       IN  IF invalidated # None /\ invalidated[1].tag = "Int"
           THEN invalidated[1].v ELSE JNull

\* getLinkedRecordID that reports a value of another kind as undefined.
getLinkedRecordID_lenient(r, key) ==
  LET v == Dict_get(r, key)
  IN  IF v = None THEN Return(JUndefined)
      ELSE IF v[1].tag = "Ref" THEN Return(v[1].v)
      ELSE IF v[1].tag = "Null" THEN Return(JNull)
      ELSE Return(JUndefined)

getLinkedRecordID(r, key) ==
  LET v == Dict_get(r, key)
  IN  IF v = None THEN Return(JUndefined)
      ELSE IF v[1].tag = "Ref" THEN Return(v[1].v)
      ELSE IF v[1].tag = "Null" THEN Return(JNull)
      ELSE Raise("Error", <<"WRONG">>)

\* The text the message shows for the value found.
valueFormatted(value) ==
  CASE value.tag = "String" -> value.v
    [] value.tag = "Float" -> value.v
    [] value.tag = "Int" -> JStr(ToString(value.v.n))
    [] value.tag = "Bool" -> JStr(IF value.v.b THEN "true" ELSE "false")
    [] value.tag = "Ref" -> [prefix |-> "ref:", id |-> value.v]
    [] value.tag = "Null" -> JStr("null")
    [] OTHER -> JStr("Whatever left")

\* getLinkedRecordIDs that reports a value of another kind as undefined.
getLinkedRecordIDs_lenient(r, key) ==
  LET v == Dict_get(r, key)
  IN  IF v = None THEN Return(JUndefined)
      ELSE IF v[1].tag = "Refs" THEN Return(v[1].v)
      ELSE IF v[1].tag = "Null" THEN Return(JNull)
      ELSE Return(JUndefined)

getLinkedRecordIDs(r, key) ==
  LET v == Dict_get(r, key)
  IN  IF v = None THEN Return(JUndefined)
      ELSE IF v[1].tag = "Refs" THEN Return(v[1].v)
      ELSE IF v[1].tag = "Null" THEN Return(JNull)
      ELSE Raise("Error", <<"getLinkedRecordIDs", getDataID(r), key,
                            valueFormatted(v[1])>>)

\* getValue that unwraps a plural reference instead of raising.
getValue_returnsPluralRefs(r, key) ==
  LET v == Dict_get(r, key)
  IN  IF v = None THEN Return(JUndefined)
      ELSE IF v[1].tag = "Ref"
      THEN Raise("Error", <<"getValue", getDataID(r), key, "a linked record">>)
      ELSE Return(transformValueToObj(v[1]))

getValue(r, key) ==
  LET id == getDataID(r)
      v == Dict_get(r, key)
  IN  IF v = None THEN Return(JUndefined)
      ELSE IF v[1].tag = "Ref"
      THEN Raise("Error", <<"getValue", id, key, "a linked record">>)
      ELSE IF v[1].tag = "Refs"
      THEN Raise("Error", <<"getValue", id, key, "plural linked records">>)
      ELSE Return(transformValueToObj(v[1]))


\* The id check left out.
idWarning_never(prevId, nextId) == {}

\* The type check without the exemption of client ids.
typeWarning_noClientExemption(id, prevType, nextType) ==
  IF prevType = nextType THEN {} ELSE {"type"}

\* The warnings of update, merge and setValue: Warning.warning reports when
\* its condition is false.
idWarning(prevId, nextId) ==
  IF prevId = nextId THEN {} ELSE {"id"}

typeWarning(id, prevType, nextType) ==
  IF isClientID(id) \/ prevType = nextType THEN {} ELSE {"type"}

\* The entries of update with only the first differing key written.
updateEntries_firstChangeOnly(a, b, ks, record) ==
  LET differing == SelectSeq(ks, LAMBDA k : Dict_get(a, k) # Dict_get(b, k))
  IN  IF differing = <<>> THEN None
      ELSE Some(Dict_set(clone(a), Head(differing), b[Head(differing)]))

RECURSIVE updateEntries(_, _, _, _)
updateEntries(a, b, ks, record) ==
  IF ks = <<>> THEN record
  ELSE LET k == Head(ks)
           v == b[k]
       IN  IF record # None \/ Dict_get(a, k) # Dict_get(b, k)
           THEN LET target == IF record = None THEN clone(a) ELSE record[1]
                IN  updateEntries(a, b, Tail(ks), Some(Dict_set(target, k, v)))
           ELSE updateEntries(a, b, Tail(ks), record)

RECURSIVE mergeEntries(_, _, _)
mergeEntries(b, ks, merged) ==
  IF ks = <<>> THEN merged
  ELSE mergeEntries(b, Tail(ks), Dict_set(merged, Head(ks), b[Head(ks)]))

\* update that writes the changes into its first argument instead of a
\* clone of it.
update_inPlace(a, b) ==
  LET written == mergeEntries(b, Dict_keys(b), a)
  IN  [same |-> TRUE,
       record |-> written,
       a |-> written,
       b |-> b,
       warn |-> idWarning(getDataID(a), getDataID(b))
                  \cup typeWarning(getDataID(b), getType(a), getType(b))]

\* same: the call returns its first argument itself; record: what it
\* returns; a, b: the contents of the arguments when it returns (every
\* Js.Dict.set of update writes to the clone).
update(a, b) ==
  LET record == updateEntries(a, b, Dict_keys(b), None)
  IN  [same |-> record = None,
       record |-> IF record = None THEN a ELSE record[1],
       a |-> a,
       b |-> b,
       warn |-> idWarning(getDataID(a), getDataID(b))
                  \cup typeWarning(getDataID(b), getType(a), getType(b))]

\* merge that writes the second record's entries into the first record
\* itself and returns a copy of it.
merge_intoFirst(a, b) ==
  [same |-> FALSE,
   record |-> mergeEntries(b, Dict_keys(b), clone(a)),
   a |-> mergeEntries(b, Dict_keys(b), a),
   b |-> b,
   warn |-> idWarning(getDataID(a), getDataID(b))
              \cup typeWarning(getDataID(b), getType(a), getType(b))]

\* merge as update: the first record itself when the second changes nothing.
merge_asUpdate(a, b) == update(a, b)

\* a, b: the contents of the arguments when it returns (every Js.Dict.set
\* of merge writes to the clone).
merge(a, b) ==
  [same |-> FALSE,
   record |-> mergeEntries(b, Dict_keys(b), clone(a)),
   a |-> a,
   b |-> b,
   warn |-> idWarning(getDataID(a), getDataID(b))
              \cup typeWarning(getDataID(b), getType(a), getType(b))]

\* out: the exception raised, or the new contents of r.
setValue(r, key, valueObj) ==
  LET value == IF valueObj = JNull THEN Null
               ELSE IF valueObj = JUndefined THEN Undefined
               ELSE transformValueFromObj(valueObj)
      warn == IF value.tag = "String" /\ key = id_key
              THEN idWarning(getDataID(r), value.v)
              ELSE IF value.tag = "String" /\ key = typename_key
              THEN typeWarning(getDataID(r), getType(r), value.v)
              ELSE {}
  IN  IF IsRaise(value) THEN [out |-> value, warn |-> {}]
      ELSE IF Dict_get(r, frozen_key) = Some(Bool(JBool(TRUE)))
      THEN [out |-> Raise("TypeError", <<"Record is frozen">>), warn |-> warn]
      ELSE [out |-> Return(Dict_set(r, key, value)), warn |-> warn]

setLinkedRecordID(record, key, id) == Dict_set(record, key, Ref(id))

\* setLinkedRecordIDs that drops the null slots of the list.
setLinkedRecordIDs_dropsNulls(record, key, refs) ==
  Dict_set(record, key,
           Refs(JArr(SelectSeq(refs.a, LAMBDA id : id # JNull))))

setLinkedRecordIDs(record, key, refs) == Dict_set(record, key, Refs(refs))

\* r: None for a null or undefined argument, Some(record) otherwise.
toObj(r) ==
  IF r = None THEN Dict_empty
  ELSE [k \in DOMAIN r[1] \ {frozen_key} |-> transformValueToObj(r[1][k])]

fromObj(recordObj) ==
  [k \in DOMAIN recordObj |->
     IF recordObj[k] = JNull THEN Null
     ELSE IF recordObj[k] = JUndefined THEN Undefined
     ELSE transformValueFromObj(recordObj[k])]


(***************************************************************************)
(* The calls of a client.  heap holds the records made so far; last is the *)
(* last call that makes or changes a record, with its arguments and what   *)
(* it returned, raised and warned; obs is the last read since then; calls  *)
(* counts the calls a specification bounds; frozenRefs holds the records   *)
(* freeze has been called on; source is the record source fromJSON built.  *)
(***************************************************************************)
Records == 1 .. Len(heap)

Call(op, r, r2, k, v, ret, err, warn) ==
  [op |-> op, r |-> r, r2 |-> r2, k |-> k, v |-> v, ret |-> ret, err |-> err,
   warn |-> warn]

Read(op, r, k, res) == [op |-> op, r |-> r, k |-> k, res |-> res]

NoRead == Read("none", 0, "", Return(JUndefined))

\* A record source: a slot for each id it knows, holding a record of the
\* heap or the tombstone null.
RecordSlot(ref) == [slot |-> "record", ref |-> ref]

NullSlot == [slot |-> "null", ref |-> 0]

NoSource == [id \in {} |-> NullSlot]

Init ==
  /\ heap = <<>>
  /\ last = Call("init", 0, 0, "", JUndefined, 0, None, {})
  /\ obs = NoRead
  /\ calls = 0
  /\ frozenRefs = {}
  /\ source = NoSource
  /\ mapHeap = <<>>
  /\ mapOut = Return(JUndefined)

Create(dataId, typename) ==
  /\ heap' = Append(heap, create(dataId, typename))
  /\ last' = Call("create", 0, 0, "", dataId, Len(heap) + 1, None, {})
  /\ obs' = NoRead
  /\ UNCHANGED <<frozenRefs, source, mapHeap, mapOut>>

FromObj(recordObj) ==
  /\ heap' = Append(heap, fromObj(recordObj))
  /\ last' = Call("fromObj", 0, 0, "", JObj(recordObj), Len(heap) + 1, None, {})
  /\ obs' = NoRead
  /\ UNCHANGED <<frozenRefs, source, mapHeap, mapOut>>

Clone(r) ==
  /\ heap' = Append(heap, clone(heap[r]))
  /\ last' = Call("clone", r, 0, "", JUndefined, Len(heap) + 1, None, {})
  /\ obs' = NoRead
  /\ UNCHANGED <<frozenRefs, source, mapHeap, mapOut>>

CopyFields(a, b) ==
  /\ heap' = [heap EXCEPT ![b] = copyFields(heap[a], heap[b])]
  /\ last' = Call("copyFields", a, b, "", JUndefined, 0, None, {})
  /\ obs' = NoRead
  /\ UNCHANGED <<frozenRefs, source, mapHeap, mapOut>>

Freeze(r) ==
  /\ heap' = [heap EXCEPT ![r] = freeze(heap[r])]
  /\ last' = Call("freeze", r, 0, "", JUndefined, 0, None, {})
  /\ obs' = NoRead
  /\ frozenRefs' = frozenRefs \cup {r}
  /\ UNCHANGED <<source, mapHeap, mapOut>>

SetValue(r, key, valueObj) ==
  LET res == setValue(heap[r], key, valueObj)
  IN  /\ heap' = IF IsRaise(res.out) THEN heap
                 ELSE [heap EXCEPT ![r] = res.out.ret]
      /\ last' = Call("setValue", r, 0, key, valueObj, 0,
                      IF IsRaise(res.out) THEN Some(res.out) ELSE None,
                      res.warn)
      /\ obs' = NoRead
      /\ UNCHANGED <<frozenRefs, source, mapHeap, mapOut>>

SetLinkedRecordID(r, key, id) ==
  /\ heap' = [heap EXCEPT ![r] = setLinkedRecordID(heap[r], key, id)]
  /\ last' = Call("setLinkedRecordID", r, 0, key, id, 0, None, {})
  /\ obs' = NoRead
  /\ UNCHANGED <<frozenRefs, source, mapHeap, mapOut>>

SetLinkedRecordIDs(r, key, refs) ==
  /\ heap' = [heap EXCEPT ![r] = setLinkedRecordIDs(heap[r], key, refs)]
  /\ last' = Call("setLinkedRecordIDs", r, 0, key, refs, 0, None, {})
  /\ obs' = NoRead
  /\ UNCHANGED <<frozenRefs, source, mapHeap, mapOut>>

\* update returns its first argument or a record it allocates.
Update(a, b) ==
  LET res == update(heap[a], heap[b])
      args == [heap EXCEPT ![a] = res.a, ![b] = res.b]
  IN  /\ heap' = IF res.same THEN args ELSE Append(args, res.record)
      /\ last' = Call("update", a, b, "", JUndefined,
                      IF res.same THEN a ELSE Len(heap) + 1, None, res.warn)
      /\ obs' = NoRead
      /\ UNCHANGED <<frozenRefs, source, mapHeap, mapOut>>

\* merge returns a record it allocates.
Merge(a, b) ==
  LET res == merge(heap[a], heap[b])
      args == [heap EXCEPT ![a] = res.a, ![b] = res.b]
  IN  /\ heap' = IF res.same THEN args ELSE Append(args, res.record)
      /\ last' = Call("merge", a, b, "", JUndefined,
                      IF res.same THEN a ELSE Len(heap) + 1, None, res.warn)
      /\ obs' = NoRead
      /\ UNCHANGED <<frozenRefs, source, mapHeap, mapOut>>

GetValue(r, key) ==
  /\ obs' = Read("getValue", r, key, getValue(heap[r], key))
  /\ UNCHANGED <<heap, last, calls, frozenRefs, source, mapHeap, mapOut>>

GetLinkedRecordID(r, key) ==
  /\ obs' = Read("getLinkedRecordID", r, key, getLinkedRecordID(heap[r], key))
  /\ UNCHANGED <<heap, last, calls, frozenRefs, source, mapHeap, mapOut>>

GetLinkedRecordIDs(r, key) ==
  /\ obs' = Read("getLinkedRecordIDs", r, key,
                 getLinkedRecordIDs(heap[r], key))
  /\ UNCHANGED <<heap, last, calls, frozenRefs, source, mapHeap, mapOut>>

IsFrozen(r) ==
  /\ obs' = Read("isFrozen", r, "", Return(JBool(isFrozen(heap[r]))))
  /\ UNCHANGED <<heap, last, calls, frozenRefs, source, mapHeap, mapOut>>

GetDataID(r) ==
  /\ obs' = Read("getDataID", r, "", Return(getDataID(heap[r])))
  /\ UNCHANGED <<heap, last, calls, frozenRefs, source, mapHeap, mapOut>>

GetType(r) ==
  /\ obs' = Read("getType", r, "", Return(getType(heap[r])))
  /\ UNCHANGED <<heap, last, calls, frozenRefs, source, mapHeap, mapOut>>

ToObj(r) ==
  /\ obs' = Read("toObj", r, "", Return(JObj(toObj(Some(heap[r])))))
  /\ UNCHANGED <<heap, last, calls, frozenRefs, source, mapHeap, mapOut>>

(***************************************************************************)
(* Spec: a client that makes, copies, freezes, writes and combines         *)
(* records, at most MaxCalls calls on at most MaxRecords records.          *)
(***************************************************************************)
DataIDs == {JStr("4")}
TypeNames == {JStr("User"), JStr("Page")}
StorageKeys == {"name", frozen_key}
LinkedIDs == {JStr("beast")}
LinkedIDLists == {JArr(<<JStr("a"), JNull, JStr("b")>>)}
Values == {JNull, JStr("Mark"), JBool(TRUE)}

Counted == calls < MaxCalls /\ calls' = calls + 1

Room == Len(heap) < MaxRecords

Next ==
  \/ \E dataId \in DataIDs, typename \in TypeNames :
       Room /\ Counted /\ Create(dataId, typename)
  \/ \E r \in Records : Room /\ Counted /\ Clone(r)
  \/ \E a \in Records, b \in Records : Counted /\ CopyFields(a, b)
  \/ \E r \in Records : Counted /\ Freeze(r)
  \/ \E r \in Records, key \in StorageKeys, valueObj \in Values :
       Counted /\ SetValue(r, key, valueObj)
  \/ \E r \in Records, key \in StorageKeys, id \in LinkedIDs :
       Counted /\ SetLinkedRecordID(r, key, id)
  \/ \E r \in Records, key \in StorageKeys, refs \in LinkedIDLists :
       Counted /\ SetLinkedRecordIDs(r, key, refs)
  \/ \E a \in Records, b \in Records :
       (Room \/ update(heap[a], heap[b]).same) /\ Counted /\ Update(a, b)
  \/ \E a \in Records, b \in Records : Room /\ Counted /\ Merge(a, b)
  \/ \E r \in Records : IsFrozen(r)

Spec == Init /\ [][Next]_vars

(***************************************************************************)
(* SpecValues: a client that writes every shape of value into records made *)
(* by create and fromObj, and reads it back: at most MaxValueWrites writes *)
(* on at most MaxValueRecords records.                                     *)
(***************************************************************************)
ValueKeys == {"name"}
ValueTypeNames == {JStr("User")}
ValueShapes ==
  {JNull, JUndefined, JStr("Mark"), JInt(7), JFloat(1), JBool(TRUE),
   JArr(<<JStr("red")>>),
   JObj([k \in {"customScalar"} |-> JBool(TRUE)]),
   JObj([k \in {ref_key} |-> JStr("beast")]),
   JObj([k \in {refs_key} |-> JArr(<<JStr("a"), JNull, JStr("b")>>)])}
RecordObjs ==
  {[k \in {id_key, typename_key} |->
      IF k = id_key THEN JStr("4") ELSE JStr("User")]}
  \cup {[k \in {id_key, typename_key, "name"} |->
           IF k = id_key THEN JStr("4")
           ELSE IF k = typename_key THEN JStr("User") ELSE v] :
        v \in ValueShapes}

Written == calls < MaxValueWrites /\ calls' = calls + 1

ValueRoom == Len(heap) < MaxValueRecords

NextValues ==
  \/ \E dataId \in DataIDs, typename \in ValueTypeNames :
       ValueRoom /\ Create(dataId, typename) /\ UNCHANGED calls
  \/ \E recordObj \in RecordObjs :
       ValueRoom /\ FromObj(recordObj) /\ UNCHANGED calls
  \/ \E r \in Records : Freeze(r) /\ UNCHANGED calls
  \/ \E r \in Records, key \in ValueKeys, valueObj \in ValueShapes :
       Written /\ SetValue(r, key, valueObj)
  \/ \E r \in Records, key \in ValueKeys, id \in LinkedIDs :
       Written /\ SetLinkedRecordID(r, key, id)
  \/ \E r \in Records, key \in ValueKeys, refs \in LinkedIDLists :
       Written /\ SetLinkedRecordIDs(r, key, refs)
  \/ \E r \in Records, key \in ValueKeys : GetValue(r, key)
  \/ \E r \in Records, key \in ValueKeys : GetLinkedRecordID(r, key)
  \/ \E r \in Records, key \in ValueKeys : GetLinkedRecordIDs(r, key)
  \/ \E r \in Records : GetDataID(r)
  \/ \E r \in Records : GetType(r)
  \/ \E r \in Records : ToObj(r)

SpecValues == Init /\ [][NextValues]_vars

(***************************************************************************)
(* Properties of the record operations, checked under Spec.  The fields of *)
(* a record are its storage keys other than the frozen marker, which is    *)
(* the state isFrozen reports and not a field.                             *)
(***************************************************************************)
Fields(rec) == DOMAIN rec \ {frozen_key}

SameFields(x, y) ==
  /\ Fields(x) = Fields(y)
  /\ \A k \in Fields(x) : x[k] = y[k]

\* rec has next's value at every field of next, prev's value at every other
\* field of prev, and no further field.
IsOverlay(rec, prev, next) ==
  /\ Fields(rec) = Fields(prev) \cup Fields(next)
  /\ \A k \in Fields(next) : rec[k] = next[k]
  /\ \A k \in Fields(prev) \ Fields(next) : rec[k] = prev[k]

FrozenError == Raise("TypeError", <<"Record is frozen">>)

\* C1: update(prev, next) returns prev itself exactly when every field of
\* next has the same value in prev; otherwise it returns a newly allocated
\* record that has next's value at every field of next and keeps the fields
\* only prev has; prev is left as it was.
C1_UpdateReturnsPrevIffUnchanged ==
  [][\A a \in Records, b \in Records :
       Update(a, b) =>
         LET prev == heap[a]
             next == heap[b]
             unchanged ==
               \A k \in Fields(next) : Dict_get(prev, k) = Dict_get(next, k)
         IN  /\ (last'.ret = a) <=> unchanged
             /\ ~unchanged =>
                  /\ last'.ret = Len(heap) + 1
                  /\ Len(heap') = Len(heap) + 1
                  /\ IsOverlay(heap'[last'.ret], prev, next)
             /\ heap'[a] = prev]_vars

\* C2: merge(r1, r2) returns a newly allocated record, neither r1 nor r2,
\* whose value at each field is r2's when r2 has the field and r1's
\* otherwise.
C2_MergeIsNewOverlay ==
  last.op = "merge" =>
    /\ last.ret \notin {last.r, last.r2}
    /\ last.ret = Len(heap)
    /\ IsOverlay(heap[last.ret], heap[last.r], heap[last.r2])

\* Reached: a merge of two records that differ at a field they both have.
C2_Witness ==
  /\ last.op = "merge"
  /\ \E k \in Fields(heap[last.r]) \cap Fields(heap[last.r2]) :
       heap[last.r][k] # heap[last.r2][k]
  /\ Fields(heap[last.r]) \ Fields(heap[last.r2]) # {}

\* C3: after freeze(r), every setValue(r, key, value), whatever the key and
\* the value, raises the frozen error and leaves the fields of r as they
\* were.
C3_SetValueAfterFreezeFails ==
  [][last'.op = "setValue" =>
       \A r \in frozenRefs, key \in StorageKeys, valueObj \in Values :
         SetValue(r, key, valueObj) =>
           /\ last'.err = Some(FrozenError)
           /\ SameFields(heap'[r], heap[r])]_vars

\* C4: after freeze(r), every setLinkedRecordID(r, key, id) and every
\* setLinkedRecordIDs(r, key, ids) raises the frozen error, as setValue
\* does, and writes no link.
C4_SetLinkedAfterFreezeFails ==
  [][last'.op \in {"setLinkedRecordID", "setLinkedRecordIDs"} =>
       \A r \in frozenRefs, key \in StorageKeys :
         /\ \A id \in LinkedIDs :
              SetLinkedRecordID(r, key, id) =>
                (last'.err = Some(FrozenError) /\ heap'[r] = heap[r])
         /\ \A refs \in LinkedIDLists :
              SetLinkedRecordIDs(r, key, refs) =>
                (last'.err = Some(FrozenError) /\ heap'[r] = heap[r])]_vars

\* C5: frozen is terminal: once freeze(r) has been called, isFrozen(r) is
\* true in every later state, whatever calls follow and whatever their
\* storage keys.
C5_FrozenIsTerminal == \A r \in frozenRefs : isFrozen(heap[r])

\* C6: clone(r) returns a record distinct from r with r's id, type and
\* fields, and isFrozen reports it unfrozen even when r is frozen.
C6_CloneIsUnfrozenCopy ==
  last.op = "clone" =>
    LET r == heap[last.r]
        c == heap[last.ret]
    IN  /\ last.ret # last.r
        /\ last.ret = Len(heap)
        /\ getDataID(c) = getDataID(r)
        /\ getType(c) = getType(r)
        /\ SameFields(c, r)
        /\ ~isFrozen(c)

\* Reached: a clone of a frozen record that has a field besides id and type.
C6_Witness ==
  /\ last.op = "clone"
  /\ isFrozen(heap[last.r])
  /\ "name" \in Fields(heap[last.r])

(***************************************************************************)
(* Properties of the conversions and the accessors, checked under          *)
(* SpecValues.  No call that makes or changes a record comes between the   *)
(* call last describes and the read obs describes.                         *)
(***************************************************************************)
\* The wrapper objects of section 6: { __ref: id } and { __refs: [ids] }.
IsRefWrapper(j) == j.t = "object" /\ DOMAIN j.f = {ref_key}

IsRefsWrapper(j) == j.t = "object" /\ DOMAIN j.f = {refs_key}

\* The read is of the record and key the last call wrote, and that call
\* returned normally.
ReadsLastWrite ==
  /\ last.err = None
  /\ obs.r = last.r
  /\ obs.k = last.k

\* The read is of the record the last call made.
ReadsLastMade == obs.r = last.ret

\* C7: fromObj(toObj(r)) has the fields of r, and toObj(fromObj(o)) is o for
\* a plain object o whose values are scalars, null, undefined, arrays,
\* custom objects and reference wrappers.
C7_ObjRoundTrip ==
  obs.op = "toObj" =>
    /\ SameFields(fromObj(obs.res.ret.f), heap[obs.r])
    /\ (last.op = "fromObj" /\ ReadsLastMade) => obs.res.ret = last.v

\* Reached: toObj of the record fromObj made of an object holding undefined.
C7_Witness ==
  /\ obs.op = "toObj"
  /\ last.op = "fromObj"
  /\ ReadsLastMade
  /\ "name" \in DOMAIN last.v.f
  /\ last.v.f["name"] = JUndefined

\* C8: getValue(r, k) returns the value stored under k, arrays and custom
\* objects included, and undefined when k was never set; it raises exactly
\* when the stored value is a single or a plural reference.
C8_GetValue ==
  obs.op = "getValue" =>
    /\ (last.op = "create" /\ ReadsLastMade) => obs.res = Return(JUndefined)
    /\ (last.op = "fromObj" /\ ReadsLastMade) =>
         IF obs.k \notin DOMAIN last.v.f THEN obs.res = Return(JUndefined)
         ELSE IF IsRefWrapper(last.v.f[obs.k]) \/ IsRefsWrapper(last.v.f[obs.k])
         THEN IsRaise(obs.res)
         ELSE obs.res = Return(last.v.f[obs.k])
    /\ (last.op = "setValue" /\ ReadsLastWrite) =>
         IF IsRefWrapper(last.v) \/ IsRefsWrapper(last.v)
         THEN IsRaise(obs.res)
         ELSE obs.res = Return(last.v)
    /\ (last.op \in {"setLinkedRecordID", "setLinkedRecordIDs"}
        /\ ReadsLastWrite) => IsRaise(obs.res)

\* Reached: getValue returned the array setValue stored.
C8_Witness ==
  /\ obs.op = "getValue"
  /\ last.op = "setValue"
  /\ ReadsLastWrite
  /\ last.v.t = "array"
  /\ obs.res = Return(last.v)

\* A value setValue stores that is neither null, undefined nor a reference.
IsScalarShape(j) ==
  /\ j \notin {JNull, JUndefined}
  /\ ~IsRefWrapper(j)
  /\ ~IsRefsWrapper(j)

\* C9: getLinkedRecordID(r, k) returns the id setLinkedRecordID stored,
\* undefined when k was never set and null when null is stored; it raises
\* when a scalar or a plural reference is stored.
C9_GetLinkedRecordID ==
  obs.op = "getLinkedRecordID" =>
    /\ (last.op = "setLinkedRecordID" /\ ReadsLastWrite) =>
         obs.res = Return(last.v)
    /\ (last.op = "create" /\ ReadsLastMade) => obs.res = Return(JUndefined)
    /\ (last.op = "fromObj" /\ ReadsLastMade /\ obs.k \notin DOMAIN last.v.f) =>
         obs.res = Return(JUndefined)
    /\ (last.op = "setValue" /\ ReadsLastWrite /\ last.v = JNull) =>
         obs.res = Return(JNull)
    /\ (last.op = "setValue" /\ ReadsLastWrite
        /\ (IsScalarShape(last.v) \/ IsRefsWrapper(last.v))) =>
         IsRaise(obs.res)
    /\ (last.op = "setLinkedRecordIDs" /\ ReadsLastWrite) => IsRaise(obs.res)

\* Reached: getLinkedRecordID raised on the list setLinkedRecordIDs stored.
C9_Witness ==
  /\ obs.op = "getLinkedRecordID"
  /\ last.op = "setLinkedRecordIDs"
  /\ ReadsLastWrite
  /\ IsRaise(obs.res)

\* C10: getLinkedRecordIDs(r, k) returns the list setLinkedRecordIDs stored,
\* in order and with its null slots, undefined when k was never set and null
\* when null is stored; it raises when a scalar or a single reference is
\* stored.
C10_GetLinkedRecordIDs ==
  obs.op = "getLinkedRecordIDs" =>
    /\ (last.op = "setLinkedRecordIDs" /\ ReadsLastWrite) =>
         obs.res = Return(last.v)
    /\ (last.op = "create" /\ ReadsLastMade) => obs.res = Return(JUndefined)
    /\ (last.op = "fromObj" /\ ReadsLastMade /\ obs.k \notin DOMAIN last.v.f) =>
         obs.res = Return(JUndefined)
    /\ (last.op = "setValue" /\ ReadsLastWrite /\ last.v = JNull) =>
         obs.res = Return(JNull)
    /\ (last.op = "setValue" /\ ReadsLastWrite
        /\ (IsScalarShape(last.v) \/ IsRefWrapper(last.v))) =>
         IsRaise(obs.res)
    /\ (last.op = "setLinkedRecordID" /\ ReadsLastWrite) => IsRaise(obs.res)

\* Reached: getLinkedRecordIDs returned a stored list that has a null slot.
C10_Witness ==
  /\ obs.op = "getLinkedRecordIDs"
  /\ last.op = "setLinkedRecordIDs"
  /\ ReadsLastWrite
  /\ \E i \in 1 .. Len(last.v.a) : last.v.a[i] = JNull
  /\ obs.res = Return(last.v)

(***************************************************************************)
(* Properties of copyFields, of the copy-producing operations and of       *)
(* frozen contents, checked under Spec.                                    *)
(***************************************************************************)
\* C15: copyFields(source, sink) sets sink's value at every key of source
\* other than the id key and the type key to source's value; it leaves
\* sink's id and type, every sink key absent from source, and source itself
\* as they were.
C15_CopyFields ==
  [][last'.op = "copyFields" =>
       \A a \in Records, b \in Records :
         CopyFields(a, b) =>
           LET src == heap[a]
               sink == heap[b]
               copied == DOMAIN src \ {id_key, typename_key}
           IN  /\ DOMAIN heap'[b] = DOMAIN sink \cup copied
               /\ \A k \in copied : heap'[b][k] = src[k]
               /\ \A k \in DOMAIN sink \ copied : heap'[b][k] = sink[k]
               /\ Dict_get(heap'[b], id_key) = Dict_get(sink, id_key)
               /\ Dict_get(heap'[b], typename_key)
                    = Dict_get(sink, typename_key)
               /\ a # b => heap'[a] = src
               /\ \A r \in Records \ {a, b} : heap'[r] = heap[r]]_vars

\* Reached: a copyFields from a record with a field onto a record of another
\* type that lacks the field.
C15_Witness ==
  /\ last.op = "copyFields"
  /\ last.r # last.r2
  /\ "name" \in DOMAIN heap[last.r]
  /\ getType(heap[last.r]) # getType(heap[last.r2])
  /\ heap[last.r2]["name"] = heap[last.r]["name"]

\* C17: clone, update and merge never mutate their arguments: after the
\* call every record that existed before it has the keys, the values and
\* the frozen status it had.
C17_CopiesLeaveInputs ==
  [][last'.op \in {"clone", "update", "merge"} =>
       \A r \in Records :
         /\ heap'[r] = heap[r]
         /\ isFrozen(heap'[r]) = isFrozen(heap[r])]_vars

\* Reached: an update that returned a new record for arguments that differ
\* at a field.
C17_Witness ==
  /\ last.op = "update"
  /\ last.ret \notin {last.r, last.r2}
  /\ ~SameFields(heap[last.r], heap[last.r2])

\* C20: the contents of a frozen record never change: after freeze(r), no
\* setValue, setLinkedRecordID, setLinkedRecordIDs or copyFields onto r
\* changes the value at any storage key of r.
C20_FrozenContentsNeverChange ==
  [][last'.op \in {"setValue", "setLinkedRecordID", "setLinkedRecordIDs",
                   "copyFields"} =>
       \A r \in frozenRefs : SameFields(heap'[r], heap[r])]_vars

(***************************************************************************)
(* SpecIdentity: a client that makes records of string, numeric and client *)
(* ids, writes their id, type and invalidation epoch, combines them and    *)
(* reads the epoch: at most MaxIdentityCalls calls on at most              *)
(* MaxIdentityRecords records.                                             *)
(***************************************************************************)
MaxIdentityRecords == 3
MaxIdentityCalls == 3

\* r = 0: the record argument is null.
GetInvalidationEpoch(r) ==
  /\ obs' = Read("getInvalidationEpoch", r, "",
                 Return(getInvalidationEpoch(IF r = 0 THEN None
                                             ELSE Some(heap[r]))))
  /\ UNCHANGED <<heap, last, calls, frozenRefs, source, mapHeap, mapOut>>

IdentityIDs == {JStr("4"), JInt(5), JStr("client:42")}
IdentityTypeNames == {JStr("User"), JStr("Page")}
IdentityKeys == {id_key, typename_key, invalidated_at_key}
IdentityValues == {JStr("Page"), JNull, JInt(7), JFloat(7)}

Identified == calls < MaxIdentityCalls /\ calls' = calls + 1

IdentityRoom == Len(heap) < MaxIdentityRecords

NextIdentity ==
  \/ \E dataId \in IdentityIDs, typename \in IdentityTypeNames :
       IdentityRoom /\ Identified /\ Create(dataId, typename)
  \/ \E r \in Records : Identified /\ Freeze(r)
  \/ \E r \in Records, key \in IdentityKeys, valueObj \in IdentityValues :
       Identified /\ SetValue(r, key, valueObj)
  \/ \E a \in Records, b \in Records :
       (IdentityRoom \/ update(heap[a], heap[b]).same)
       /\ Identified /\ Update(a, b)
  \/ \E a \in Records, b \in Records :
       IdentityRoom /\ Identified /\ Merge(a, b)
  \/ \E r \in Records \cup {0} : GetInvalidationEpoch(r)

SpecIdentity == Init /\ [][NextIdentity]_vars

(***************************************************************************)
(* Properties of the consistency warnings, of create and of the            *)
(* invalidation epoch, checked under SpecIdentity.                         *)
(***************************************************************************)
\* The value getValue finds under key k of rec.
Stored(rec, k) == toObj(Some(rec))[k]

\* C11: on an unfrozen record whose id is not a client id, setValue under
\* the id key warns whenever the value differs from the record's id, and
\* setValue under the type key warns whenever the value differs from the
\* record's type, for any value, null and non-strings included; the call
\* does not fail and stores the value.
C11_SetValueWarns ==
  [][last'.op = "setValue" =>
       \A r \in Records, valueObj \in IdentityValues :
         LET rec == heap[r]
             plain == ~isFrozen(rec) /\ ~isClientID(getDataID(rec))
         IN  /\ (plain /\ SetValue(r, id_key, valueObj)) =>
                  /\ valueObj # getDataID(rec) => "id" \in last'.warn
                  /\ last'.err = None
                  /\ Stored(heap'[r], id_key) = valueObj
             /\ (plain /\ SetValue(r, typename_key, valueObj)) =>
                  /\ valueObj # getType(rec) => "type" \in last'.warn
                  /\ last'.err = None
                  /\ Stored(heap'[r], typename_key) = valueObj]_vars

C13_UpdateMergeWarn ==
  last.op \in {"update", "merge"} =>
    LET a == heap[last.r]
        b == heap[last.r2]
        res == heap[last.ret]
    IN  /\ ("id" \in last.warn) <=> (getDataID(a) # getDataID(b))
        /\ ("type" \in last.warn)
             <=> (getType(a) # getType(b) /\ ~isClientID(getDataID(b)))
        /\ last.err = None
        /\ getDataID(res) = getDataID(b)
        /\ getType(res) = getType(b)

\* Reached: a merge that warned for the id and for the type.
C13_Witness ==
  /\ last.op = "merge"
  /\ last.warn = {"id", "type"}
  /\ getType(heap[last.ret]) = getType(heap[last.r2])
  /\ getType(heap[last.ret]) # getType(heap[last.r])

\* The string form of an id handed to create.
IdText(dataId) == IF dataId = JInt(5) THEN JStr("5") ELSE dataId

\* C14: create(id, type) does not fail and makes a record that is not
\* frozen, whose only keys are the id key and the type key, whose type is
\* the type given, whose id is the id given as a string (the number 5 as
\* "5"), and that has no invalidation epoch.
C14_Create ==
  [][\A dataId \in IdentityIDs, typename \in IdentityTypeNames :
       Create(dataId, typename) =>
         LET rec == heap'[last'.ret]
         IN  /\ last'.err = None
             /\ Len(heap') = Len(heap) + 1
             /\ ~isFrozen(rec)
             /\ DOMAIN rec = {id_key, typename_key}
             /\ getType(rec) = typename
             /\ getDataID(rec) = IdText(dataId)
             /\ Stored(rec, id_key) = IdText(dataId)
             /\ getInvalidationEpoch(Some(rec)) = JNull]_vars

\* Reached: create was called with the number 5 and made a record with the
\* id "5".
C14_Witness ==
  /\ last.op = "create"
  /\ last.v = JInt(5)
  /\ getDataID(heap[last.ret]) = JStr("5")
  /\ ~isFrozen(heap[last.ret])

\* The value stored on rec under the invalidated-at key, undefined when
\* the key is absent.
StoredEpoch(rec) ==
  IF invalidated_at_key \in DOMAIN rec
  THEN Stored(rec, invalidated_at_key)
  ELSE JUndefined

IsNumber(j) == j.t = "number"

\* C16: getInvalidationEpoch(r) does not fail; it returns null when r is
\* null or when no number is stored under the invalidated-at key of r, and
\* otherwise returns exactly the number stored there.
C16_EpochIsStoredNumber ==
  obs.op = "getInvalidationEpoch" =>
    /\ ~IsRaise(obs.res)
    /\ obs.res = Return(IF obs.r = 0 THEN JNull
                        ELSE IF IsNumber(StoredEpoch(heap[obs.r]))
                        THEN StoredEpoch(heap[obs.r]) ELSE JNull)

\* C16 as it holds: getInvalidationEpoch(r) does not fail; it returns null
\* when r is null or when no integer is stored under the invalidated-at key
\* of r (a number that is not an integer counts as none), and otherwise
\* returns exactly the integer stored there.
C16_EpochIsStoredInteger ==
  obs.op = "getInvalidationEpoch" =>
    /\ ~IsRaise(obs.res)
    /\ obs.res = Return(IF obs.r = 0 THEN JNull
                        ELSE IF isInteger(StoredEpoch(heap[obs.r]))
                        THEN StoredEpoch(heap[obs.r]) ELSE JNull)

\* Reached: the epoch 7 was stored with setValue and read back.
C16_Witness ==
  /\ obs.op = "getInvalidationEpoch"
  /\ obs.r \in Records
  /\ last.op = "setValue" /\ last.r = obs.r /\ last.k = invalidated_at_key
  /\ last.v = JInt(7)
  /\ obs.res = Return(JInt(7))

(***************************************************************************)
(* The messages of the failures of the three getters, checked under        *)
(* SpecValues.                                                             *)
(***************************************************************************)
\* The text of a scalar as a message shows it.
TextOf(j) ==
  CASE j.t = "string" -> j
    [] j.t = "number" -> IF j.int THEN JStr(ToString(j.n)) ELSE j
    [] j.t = "boolean" -> JStr(IF j.b THEN "true" ELSE "false")

\* C18: when getValue, getLinkedRecordID or getLinkedRecordIDs raises for a
\* value of the wrong kind, the message has the id of the record, the key
\* read and a description of the value found; for getLinkedRecordIDs the
\* description is the text of the scalar found, or ref:<id> for a single
\* link.
C18_FailuresDescribe ==
  (obs.op \in {"getValue", "getLinkedRecordID", "getLinkedRecordIDs"}
   /\ IsRaise(obs.res)) =>
    LET rec == heap[obs.r]
        msg == obs.res.msg
        found == Stored(rec, obs.k)
    IN  /\ Len(msg) = 4
        /\ msg[2] = getDataID(rec)
        /\ msg[3] = obs.k
        /\ obs.op = "getLinkedRecordIDs" =>
             /\ IsRefWrapper(found) =>
                  msg[4] = [prefix |-> "ref:", id |-> found.f[ref_key]]
             /\ found.t \in {"string", "number", "boolean"} =>
                  msg[4] = TextOf(found)

(***************************************************************************)
(* RelayRecordSource.fromJSON and the record source it builds.             *)
(* SpecSource: a client that loads at most MaxLoads dumps and looks ids    *)
(* up in the source the last load built.                                   *)
(***************************************************************************)
MaxLoads == 1

\* The truthiness of a JavaScript value.
Truthy(j) ==
  CASE j.t \in {"null", "undefined"} -> FALSE
    [] j.t = "boolean" -> j.b
    [] j.t = "string" -> j.s # ""
    [] j.t = "number" -> ~(j.int /\ j.n = 0)
    [] OTHER -> TRUE

\* fromJSON that leaves out the ids the dump maps to null.
fromJSON_dropsTombstones(records) ==
  [key \in {k \in DOMAIN records : Truthy(records[k])} |->
     fromObj(records[key].f)]

\* The object fromJSON hands to the source: a record made by fromObj for a
\* truthy value, the value itself otherwise.
fromJSON(records) ==
  [key \in DOMAIN records |->
     LET value == records[key]
     IN  IF Truthy(value) THEN fromObj(value.f) ELSE value]

\* A source over a map from ids to slots: it knows exactly the ids of the
\* map, each with the slot the map gives it.
RelayRecordSourceMapImpl(records) == [id \in DOMAIN records |-> records[id]]

has(s, id) == id \in DOMAIN s

\* The slot of id, or undefined for an id the source does not know.
get(s, id) == IF has(s, id) THEN Return(s[id]) ELSE Return(JUndefined)

\* The ids of a dump, in the order `for ... in` walks them.
DumpOrder == <<"4", "beast">>

DumpIDs == {DumpOrder[i] : i \in 1 .. Len(DumpOrder)}

IndexOf(seq, x) == CHOOSE i \in 1 .. Len(seq) : seq[i] = x

\* fromJSON(dump): the records fromObj makes go on the heap in the order
\* of the walk, and the source holds a reference to each and null for the
\* rest.
FromJSON(dump) ==
  LET obj == fromJSON(dump)
      made == SelectSeq(DumpOrder,
                        LAMBDA id : id \in DOMAIN obj /\ Truthy(dump[id]))
      slots == [id \in DOMAIN obj |->
                  IF Truthy(dump[id])
                  THEN RecordSlot(Len(heap) + IndexOf(made, id))
                  ELSE NullSlot]
  IN  /\ heap' = heap \o [i \in 1 .. Len(made) |-> obj[made[i]]]
      /\ source' = RelayRecordSourceMapImpl(slots)
      /\ last' = Call("fromJSON", 0, 0, "", JObj(dump), 0, None, {})
      /\ obs' = NoRead
      /\ UNCHANGED <<frozenRefs, mapHeap, mapOut>>

SourceGet(id) ==
  /\ obs' = Read("get", 0, id, get(source, id))
  /\ UNCHANGED <<heap, last, calls, frozenRefs, source, mapHeap, mapOut>>

SourceHas(id) ==
  /\ obs' = Read("has", 0, id, Return(JBool(has(source, id))))
  /\ UNCHANGED <<heap, last, calls, frozenRefs, source, mapHeap, mapOut>>

\* The values a dump holds under the field of a record object: every shape
\* JSON can carry.
DumpShapes == ValueShapes \ {JUndefined}

DumpObjs(id) ==
  {[k \in {id_key, typename_key} |->
      IF k = id_key THEN JStr(id) ELSE JStr("User")]}
  \cup {[k \in {id_key, typename_key, "name"} |->
           IF k = id_key THEN JStr(id)
           ELSE IF k = typename_key THEN JStr("User") ELSE v] :
        v \in DumpShapes}

\* A dump maps some of the ids to a record object or to null.
Dumps ==
  UNION {{d \in [ids -> {JNull} \cup {JObj(o) : o \in UNION {DumpObjs(id) : id \in ids}}] :
            \A id \in ids : d[id] = JNull \/ d[id].f[id_key] = JStr(id)} :
         ids \in SUBSET DumpIDs}

Loaded == calls < MaxLoads /\ calls' = calls + 1

NextSource ==
  \/ \E dump \in Dumps : Loaded /\ FromJSON(dump)
  \/ \E id \in DumpIDs : SourceGet(id)
  \/ \E id \in DumpIDs : SourceHas(id)

SpecSource == Init /\ [][NextSource]_vars

\* C19: fromJSON(dump) builds a source that knows exactly the ids of dump;
\* an id the dump maps to a record object holds a record whose toObj is
\* that object, an id the dump maps to null holds null (known, and not a
\* record), and an id absent from the dump is unknown.
C19_FromJSON ==
  last.op = "fromJSON" =>
    LET dump == last.v.f
    IN  \A id \in DumpIDs :
          /\ has(source, id) <=> id \in DOMAIN dump
          /\ (id \in DOMAIN dump /\ dump[id] # JNull) =>
               /\ get(source, id).ret.slot = "record"
               /\ get(source, id).ret.ref \in Records
               /\ JObj(toObj(Some(heap[get(source, id).ret.ref]))) = dump[id]
          /\ (id \in DOMAIN dump /\ dump[id] = JNull) =>
               get(source, id) = Return(NullSlot)
          /\ id \notin DOMAIN dump => get(source, id) = Return(JUndefined)

\* Reached: a dump with a record object holding a link under one id and
\* null under the other was loaded.
C19_Witness ==
  /\ last.op = "fromJSON"
  /\ DOMAIN last.v.f = DumpIDs
  /\ last.v.f["beast"] = JNull
  /\ source["beast"] = NullSlot
  /\ source["4"].slot = "record"
  /\ "name" \in DOMAIN heap[source["4"].ref]
  /\ heap[source["4"].ref]["name"].tag = "Ref"

(***************************************************************************)
(* SpecKinds: a client that stores a value of every shape, the odd wrapper  *)
(* objects included, under one key and calls the three accessors on it: at *)
(* most MaxKindWrites writes on at most MaxKindRecords records.            *)
(***************************************************************************)
MaxKindRecords == 1
MaxKindWrites == 1

\* A wrapper whose __ref is not a string, and an object with both wrapper
\* keys.
OddWrappers ==
  {JObj([k \in {ref_key} |-> JInt(5)]),
   JObj([k \in {ref_key, refs_key} |->
           IF k = ref_key THEN JStr("beast") ELSE JArr(<<JStr("a")>>)])}

KindShapes == ValueShapes \cup OddWrappers

KindObjs ==
  RecordObjs
  \cup {[k \in {id_key, typename_key, "name"} |->
           IF k = id_key THEN JStr("4")
           ELSE IF k = typename_key THEN JStr("User") ELSE v] :
        v \in OddWrappers}

KindWritten == calls < MaxKindWrites /\ calls' = calls + 1

KindRoom == Len(heap) < MaxKindRecords

NextKinds ==
  \/ \E dataId \in DataIDs, typename \in ValueTypeNames :
       KindRoom /\ Create(dataId, typename) /\ UNCHANGED calls
  \/ \E recordObj \in KindObjs :
       KindRoom /\ FromObj(recordObj) /\ UNCHANGED calls
  \/ \E r \in Records, key \in ValueKeys, valueObj \in KindShapes :
       KindWritten /\ SetValue(r, key, valueObj)
  \/ \E r \in Records, key \in ValueKeys, id \in LinkedIDs :
       KindWritten /\ SetLinkedRecordID(r, key, id)
  \/ \E r \in Records, key \in ValueKeys, refs \in LinkedIDLists :
       KindWritten /\ SetLinkedRecordIDs(r, key, refs)
  \/ \E r \in Records, key \in ValueKeys : GetValue(r, key)
  \/ \E r \in Records, key \in ValueKeys : GetLinkedRecordID(r, key)
  \/ \E r \in Records, key \in ValueKeys : GetLinkedRecordIDs(r, key)

SpecKinds == Init /\ [][NextKinds]_vars

(***************************************************************************)
(* The kind of a stored value, checked under SpecKinds.                    *)
(***************************************************************************)
\* The accessors that return normally on key k of rec.
Succeeding(rec, k) ==
  {op \in {"getValue", "getLinkedRecordID", "getLinkedRecordIDs"} :
     ~IsRaise(CASE op = "getValue" -> getValue(rec, k)
                [] op = "getLinkedRecordID" -> getLinkedRecordID(rec, k)
                [] op = "getLinkedRecordIDs" -> getLinkedRecordIDs(rec, k))}

\* C21: every value other than null and undefined that setValue,
\* setLinkedRecordID, setLinkedRecordIDs or fromObj stored under a key is of
\* exactly one kind: exactly one of getValue, getLinkedRecordID and
\* getLinkedRecordIDs returns on it and the other two raise.
C21_ExactlyOneKind ==
  \A r \in Records :
    \A k \in Fields(heap[r]) :
      Stored(heap[r], k) \notin {JNull, JUndefined} =>
        Cardinality(Succeeding(heap[r], k)) = 1

\* Reached: setValue stored an object that has both wrapper keys, and only
\* getValue returns on it.
C21_Witness ==
  /\ last.op = "setValue"
  /\ last.err = None
  /\ last.v.t = "object"
  /\ DOMAIN last.v.f = {ref_key, refs_key}
  /\ Succeeding(heap[last.r], last.k) = {"getValue"}

(***************************************************************************)
(* The identity of a record over time, checked under SpecIdentity.         *)
(***************************************************************************)
IsNamed(rec) == getDataID(rec) # JStr("") /\ getType(rec) # JStr("")

\* C22: the id and the type of a record are never cleared: after every
\* call, getDataID and getType of every record are non-empty strings, and
\* the id or the type of a record differs from what it was before the call
\* only when the call is a setValue on its id key or type key that warned.
C22_IdentityNeverCleared ==
  [][/\ \A r \in 1 .. Len(heap') : IsNamed(heap'[r])
     /\ \A r \in Records :
          (getDataID(heap'[r]) # getDataID(heap[r])
           \/ getType(heap'[r]) # getType(heap[r])) =>
            /\ last'.op = "setValue"
            /\ last'.r = r
            /\ last'.k \in {id_key, typename_key}
            /\ last'.warn # {}]_vars

(***************************************************************************)
(* RelayModernRecordMapImpl: a record is a Map from keys to JavaScript     *)
(* values, here a function from the keys it holds to those values.         *)
(***************************************************************************)
MapImpl_FROZEN == "__FROZEN__"

\* Map.prototype.get: undefined for a key the map does not hold.
Map_get(m, k) == IF k \in DOMAIN m THEN m[k] ELSE JUndefined

Map_set(m, k, v) == [x \in DOMAIN m \cup {k} |-> IF x = k THEN v ELSE m[x]]

\* value.hasOwnProperty(k) for a value whose typeof is "object".
hasOwnProperty(value, k) == value.t = "object" /\ k \in DOMAIN value.f

\* value[k] on a truthy value: undefined for a key it does not have.
Js_member(value, k) ==
  IF hasOwnProperty(value, k) THEN value.f[k] ELSE JUndefined

MapImpl_create(dataID, typeName) ==
  Map_set(Map_set(Dict_empty, id_key, dataID), typename_key, typeName)

MapImpl_getDataID(record) == Map_get(record, id_key)

MapImpl_getType(record) == Map_get(record, typename_key)

MapImpl_getValue(record, storageKey) ==
  LET value == Map_get(record, storageKey)
  IN  IF Truthy(value) /\ typeof(value) = "object"
         /\ (hasOwnProperty(value, ref_key) \/ hasOwnProperty(value, refs_key))
      THEN Raise("Invariant Violation",
                 <<"getValue", Map_get(record, id_key), storageKey,
                   IF hasOwnProperty(value, ref_key) THEN "a linked record"
                   ELSE "plural linked records">>)
      ELSE Return(value)

MapImpl_getLinkedRecordID(record, storageKey) ==
  LET link == Map_get(record, storageKey)
  IN  IF link \in {JNull, JUndefined} THEN Return(link)
      ELSE IF typeof(link) = "object" /\ Truthy(link)
              /\ typeof(Js_member(link, ref_key)) = "string"
      THEN Return(Js_member(link, ref_key))
      ELSE Raise("Invariant Violation",
                 <<"getLinkedRecordID", Map_get(record, id_key), storageKey,
                   link>>)

MapImpl_getLinkedRecordIDs(record, storageKey) ==
  LET links == Map_get(record, storageKey)
  IN  IF links \in {JNull, JUndefined} THEN Return(links)
      ELSE IF typeof(links) = "object"
              /\ Js_member(links, refs_key).t = "array"
      THEN Return(Js_member(links, refs_key))
      ELSE Raise("Invariant Violation",
                 <<"getLinkedRecordIDs", Map_get(record, id_key), storageKey,
                   links>>)

MapImpl_isFrozen(record) == Map_get(record, MapImpl_FROZEN) = JBool(TRUE)

MapImpl_freeze(record) == Map_set(record, MapImpl_FROZEN, JBool(TRUE))

\* out: the exception raised, or the new contents of the record.
MapImpl_setValue(record, storageKey, value) ==
  LET prevID == MapImpl_getDataID(record)
      coalesce(t) == IF t = JUndefined THEN JNull ELSE t
      warn == IF storageKey = id_key
              THEN IF prevID = value THEN {} ELSE {"id"}
              ELSE IF storageKey = typename_key
              THEN IF isClientID(prevID)
                      \/ coalesce(MapImpl_getType(record)) = coalesce(value)
                   THEN {} ELSE {"type"}
              ELSE {}
  IN  IF Map_get(record, MapImpl_FROZEN) = JBool(TRUE)
      THEN [out |-> Raise("TypeError", <<"Cannot mutate frozen record">>),
            warn |-> {}]
      ELSE [out |-> Return(Map_set(record, storageKey, value)), warn |-> warn]

MapImpl_setLinkedRecordID(record, storageKey, linkedID) ==
  Map_set(record, storageKey, JObj([k \in {ref_key} |-> linkedID]))

MapImpl_setLinkedRecordIDs(record, storageKey, linkedIDs) ==
  Map_set(record, storageKey, JObj([k \in {refs_key} |-> linkedIDs]))

MapImpl_toObj(r) ==
  IF r = None THEN Dict_empty
  ELSE [k \in DOMAIN r[1] \ {MapImpl_FROZEN} |-> r[1][k]]


(***************************************************************************)
(* SpecImpls: a client that runs the exported implementation and the Map   *)
(* implementation side by side: every call is made on both with the same   *)
(* arguments, record r of heap and record r of mapHeap being the two       *)
(* implementations' record for the same calls.  At most MaxImplWrites      *)
(* writes on at most MaxImplRecords records.                               *)
(***************************************************************************)
MaxImplRecords == 1
MaxImplWrites == 1

Accessors ==
  {"getValue", "getLinkedRecordID", "getLinkedRecordIDs", "getDataID",
   "getType", "isFrozen", "toObj"}

\* What the exported implementation's accessor op answers on rec.
ReasonRecordDict_read(op, rec, key) ==
  CASE op = "getValue" -> getValue(rec, key)
    [] op = "getLinkedRecordID" -> getLinkedRecordID(rec, key)
    [] op = "getLinkedRecordIDs" -> getLinkedRecordIDs(rec, key)
    [] op = "getDataID" -> Return(getDataID(rec))
    [] op = "getType" -> Return(getType(rec))
    [] op = "isFrozen" -> Return(JBool(isFrozen(rec)))
    [] op = "toObj" -> Return(JObj(toObj(Some(rec))))

\* What the Map implementation's accessor op answers on rec.
MapImpl_read(op, rec, key) ==
  CASE op = "getValue" -> MapImpl_getValue(rec, key)
    [] op = "getLinkedRecordID" -> MapImpl_getLinkedRecordID(rec, key)
    [] op = "getLinkedRecordIDs" -> MapImpl_getLinkedRecordIDs(rec, key)
    [] op = "getDataID" -> Return(MapImpl_getDataID(rec))
    [] op = "getType" -> Return(MapImpl_getType(rec))
    [] op = "isFrozen" -> Return(JBool(MapImpl_isFrozen(rec)))
    [] op = "toObj" -> Return(JObj(MapImpl_toObj(Some(rec))))

ImplCreate(dataId, typename) ==
  /\ heap' = Append(heap, create(dataId, typename))
  /\ mapHeap' = Append(mapHeap, MapImpl_create(dataId, typename))
  /\ last' = Call("create", 0, 0, "", dataId, Len(heap) + 1, None, {})
  /\ obs' = NoRead
  /\ mapOut' = Return(JUndefined)
  /\ UNCHANGED <<frozenRefs, source>>

ImplFreeze(r) ==
  /\ heap' = [heap EXCEPT ![r] = freeze(heap[r])]
  /\ mapHeap' = [mapHeap EXCEPT ![r] = MapImpl_freeze(mapHeap[r])]
  /\ last' = Call("freeze", r, 0, "", JUndefined, 0, None, {})
  /\ obs' = NoRead
  /\ mapOut' = Return(JUndefined)
  /\ frozenRefs' = frozenRefs \cup {r}
  /\ UNCHANGED source

ImplSetValue(r, key, valueObj) ==
  LET res == setValue(heap[r], key, valueObj)
      mapRes == MapImpl_setValue(mapHeap[r], key, valueObj)
  IN  /\ heap' = IF IsRaise(res.out) THEN heap
                 ELSE [heap EXCEPT ![r] = res.out.ret]
      /\ mapHeap' = IF IsRaise(mapRes.out) THEN mapHeap
                    ELSE [mapHeap EXCEPT ![r] = mapRes.out.ret]
      /\ last' = Call("setValue", r, 0, key, valueObj, 0,
                      IF IsRaise(res.out) THEN Some(res.out) ELSE None,
                      res.warn)
      /\ obs' = NoRead
      /\ mapOut' = IF IsRaise(mapRes.out) THEN mapRes.out
                   ELSE Return(JUndefined)
      /\ UNCHANGED <<frozenRefs, source>>

ImplSetLinkedRecordID(r, key, id) ==
  /\ heap' = [heap EXCEPT ![r] = setLinkedRecordID(heap[r], key, id)]
  /\ mapHeap' =
       [mapHeap EXCEPT ![r] = MapImpl_setLinkedRecordID(mapHeap[r], key, id)]
  /\ last' = Call("setLinkedRecordID", r, 0, key, id, 0, None, {})
  /\ obs' = NoRead
  /\ mapOut' = Return(JUndefined)
  /\ UNCHANGED <<frozenRefs, source>>

ImplSetLinkedRecordIDs(r, key, refs) ==
  /\ heap' = [heap EXCEPT ![r] = setLinkedRecordIDs(heap[r], key, refs)]
  /\ mapHeap' =
       [mapHeap EXCEPT ![r] = MapImpl_setLinkedRecordIDs(mapHeap[r], key, refs)]
  /\ last' = Call("setLinkedRecordIDs", r, 0, key, refs, 0, None, {})
  /\ obs' = NoRead
  /\ mapOut' = Return(JUndefined)
  /\ UNCHANGED <<frozenRefs, source>>

ImplRead(op, r, key) ==
  /\ obs' = Read(op, r, key, ReasonRecordDict_read(op, heap[r], key))
  /\ mapOut' = MapImpl_read(op, mapHeap[r], key)
  /\ UNCHANGED <<heap, mapHeap, last, calls, frozenRefs, source>>

ImplIDs == {JStr("4"), JInt(5)}

ImplWritten == calls < MaxImplWrites /\ calls' = calls + 1

ImplRoom == Len(heap) < MaxImplRecords

NextImpls ==
  \/ \E dataId \in ImplIDs, typename \in ValueTypeNames :
       ImplRoom /\ ImplCreate(dataId, typename) /\ UNCHANGED calls
  \/ \E r \in Records : ImplFreeze(r) /\ UNCHANGED calls
  \/ \E r \in Records, key \in ValueKeys, valueObj \in ValueShapes :
       ImplWritten /\ ImplSetValue(r, key, valueObj)
  \/ \E r \in Records, key \in ValueKeys, id \in LinkedIDs :
       ImplWritten /\ ImplSetLinkedRecordID(r, key, id)
  \/ \E r \in Records, key \in ValueKeys, refs \in LinkedIDLists :
       ImplWritten /\ ImplSetLinkedRecordIDs(r, key, refs)
  \/ \E op \in Accessors, r \in Records, key \in ValueKeys :
       ImplRead(op, r, key)

SpecImpls == Init /\ [][NextImpls]_vars

\* What the exported implementation answered to the last call: the result
\* of the read, the exception of the write, or undefined.
ReasonOut ==
  IF obs # NoRead THEN obs.res
  ELSE IF last.err # None THEN last.err[1]
  ELSE Return(JUndefined)

\* C23: run side by side on the same calls, the exported implementation and
\* the Map implementation raise an error at the same calls, and every
\* accessor, isFrozen and toObj return equal results from both.
C23_ImplsEquivalent ==
  /\ IsRaise(ReasonOut) <=> IsRaise(mapOut)
  /\ (obs # NoRead /\ ~IsRaise(ReasonOut)) => ReasonOut = mapOut


(***************************************************************************)
(* SpecEpoch: a client that stamps invalidation epochs on records, copies  *)
(* and combines them and reads the epochs: at most MaxEpochCalls calls on  *)
(* at most MaxEpochRecords records.                                        *)
(***************************************************************************)
MaxEpochRecords == 3
MaxEpochCalls == 4

Epochs == {JInt(3), JInt(7), JNull}

Stamped == calls < MaxEpochCalls /\ calls' = calls + 1

EpochRoom == Len(heap) < MaxEpochRecords

NextEpoch ==
  \/ \E dataId \in DataIDs, typename \in ValueTypeNames :
       EpochRoom /\ Stamped /\ Create(dataId, typename)
  \/ \E r \in Records, valueObj \in Epochs :
       Stamped /\ SetValue(r, invalidated_at_key, valueObj)
  \/ \E a \in Records, b \in Records : Stamped /\ CopyFields(a, b)
  \/ \E a \in Records, b \in Records :
       (EpochRoom \/ update(heap[a], heap[b]).same)
       /\ Stamped /\ Update(a, b)
  \/ \E a \in Records, b \in Records : EpochRoom /\ Stamped /\ Merge(a, b)
  \/ \E r \in Records \cup {0} : GetInvalidationEpoch(r)

SpecEpoch == Init /\ [][NextEpoch]_vars

\* The epoch getInvalidationEpoch reports for record r of the heap h.
EpochAt(h, r) == getInvalidationEpoch(Some(h[r]))

\* C24: the epoch of a record is monotonically increasing: no call takes
\* the value getInvalidationEpoch returns for a record from a number to a
\* smaller number or from a number to null.
C24_EpochMonotonic ==
  [][\A r \in Records :
       EpochAt(heap, r) # JNull =>
         /\ EpochAt(heap', r) # JNull
         /\ EpochAt(heap', r).n >= EpochAt(heap, r).n]_vars


\* C24 as it holds: over setValue on the invalidated-at key, copyFields,
\* update and merge, the value getInvalidationEpoch returns for a record
\* changes only when that key of the record is written: by a setValue on
\* it, which leaves the integer written or null for any other value, or by
\* a copyFields into the record from a source that holds the key, which
\* leaves the source's epoch.  update and merge change the epoch of no
\* record that exists; the value written may be smaller than the one before.
C24_EpochChangesOnlyByWrite ==
  [][\A r \in Records :
       EpochAt(heap', r) # EpochAt(heap, r) =>
         \/ /\ last'.op = "setValue"
            /\ last'.r = r
            /\ last'.k = invalidated_at_key
            /\ EpochAt(heap', r) = IF isInteger(last'.v) THEN last'.v ELSE JNull
         \/ /\ last'.op = "copyFields"
            /\ last'.r2 = r
            /\ invalidated_at_key \in DOMAIN heap[last'.r]
            /\ EpochAt(heap', r) = EpochAt(heap, last'.r)]_vars

\* Reached: copyFields gave a record the epoch 3 of another record.
C24_Witness ==
  /\ last.op = "copyFields"
  /\ last.r # last.r2
  /\ EpochAt(heap, last.r) = JInt(3)
  /\ EpochAt(heap, last.r2) = JInt(3)


(***************************************************************************)
(* SpecSnapshots: a client that makes one record with create and every     *)
(* other record from it with clone, update and merge, and writes to the    *)
(* records with the three setters: at most MaxSnapshotCalls calls on at    *)
(* most MaxSnapshotRecords records.  Every record but the first is a copy. *)
(***************************************************************************)
MaxSnapshotRecords == 3
MaxSnapshotCalls == 5

SnapshotValues == {JStr("Mark")}

Snapped == calls < MaxSnapshotCalls /\ calls' = calls + 1

SnapshotRoom == Len(heap) < MaxSnapshotRecords

NextSnapshots ==
  \/ \E dataId \in DataIDs, typename \in ValueTypeNames :
       Len(heap) = 0 /\ Snapped /\ Create(dataId, typename)
  \/ \E r \in Records : SnapshotRoom /\ Snapped /\ Clone(r)
  \/ \E a \in Records, b \in Records :
       (SnapshotRoom \/ update(heap[a], heap[b]).same)
       /\ Snapped /\ Update(a, b)
  \/ \E a \in Records, b \in Records :
       SnapshotRoom /\ Snapped /\ Merge(a, b)
  \/ \E r \in Records, key \in ValueKeys, valueObj \in SnapshotValues :
       Snapped /\ SetValue(r, key, valueObj)
  \/ \E r \in Records, key \in ValueKeys, id \in LinkedIDs :
       Snapped /\ SetLinkedRecordID(r, key, id)
  \/ \E r \in Records, key \in ValueKeys, refs \in LinkedIDLists :
       Snapped /\ SetLinkedRecordIDs(r, key, refs)
  \/ \E r \in Records, key \in ValueKeys : GetValue(r, key)

SpecSnapshots == Init /\ [][NextSnapshots]_vars

Setters == {"setValue", "setLinkedRecordID", "setLinkedRecordIDs"}

\* C25: clone and merge return a record that did not exist, and so does
\* update when it does not return its first argument; a setValue,
\* setLinkedRecordID or setLinkedRecordIDs on a record leaves every other
\* record, the copies made from it and the records it was made from, with
\* the keys and values it had.
C25_SnapshotIsolation ==
  [][/\ last'.op = "clone" =>
          \A r \in Records : Clone(r) => last'.ret \notin Records
     /\ last'.op = "merge" =>
          \A a \in Records, b \in Records :
            Merge(a, b) => last'.ret \notin Records
     /\ last'.op = "update" =>
          \A a \in Records, b \in Records :
            (Update(a, b) /\ last'.ret # a) => last'.ret \notin Records
     /\ (last'.op \in Setters /\ calls' # calls) =>
          \A y \in Records \ {last'.r} : heap'[y] = heap[y]]_vars

\* Reached: a record and a copy made from it hold different values under
\* the same key, the copy's written last.
C25_Witness ==
  /\ last.op = "setValue"
  /\ last.err = None
  /\ last.r > 1
  /\ "name" \in DOMAIN heap[1]
  /\ heap[1]["name"] # heap[last.r]["name"]


(***************************************************************************)
(* Properties of the frozen state of records, checked under Spec.          *)
(***************************************************************************)
\* C26: a record that is not frozen becomes frozen only through freeze: no
\* setValue, setLinkedRecordID or setLinkedRecordIDs on it, whatever the
\* key, and no copyFields into it, from a frozen source included, makes
\* isFrozen true for it.
C26_FrozenOnlyByFreeze ==
  [][\A r \in Records :
       (~isFrozen(heap[r]) /\ isFrozen(heap'[r])) =>
         (last'.op = "freeze" /\ last'.r = r)]_vars


\* C27: the record merge allocates, and the record update allocates when
\* it does not return its first argument, is not frozen, whether or not the
\* arguments are; and update returns its first argument when the second is
\* frozen and every field of the second has the same value in the first.
C27_NewRecordsUnfrozen ==
  /\ last.op = "merge" => ~isFrozen(heap[last.ret])
  /\ (last.op = "update" /\ last.ret # last.r) => ~isFrozen(heap[last.ret])
  /\ (last.op = "update" /\ isFrozen(heap[last.r2])
      /\ \A k \in Fields(heap[last.r2]) :
           Dict_get(heap[last.r], k) = Dict_get(heap[last.r2], k)) =>
       last.ret = last.r


\* C28: update(prev, next) and merge(prev, next) return records with the
\* same fields and equal values at every field, id and type included,
\* whether or not update allocates.
C28_SameOverlay ==
  [][/\ last'.op = "update" =>
          \A a \in Records, b \in Records :
            Update(a, b) =>
              SameFields(heap'[last'.ret], merge(heap[a], heap[b]).record)
     /\ last'.op = "merge" =>
          \A a \in Records, b \in Records :
            Merge(a, b) =>
              SameFields(heap'[last'.ret], update(heap[a], heap[b]).record)]_vars

\* Reached: update allocated a record that differs from its first argument
\* in the type and in a field the first argument lacks.
C28_Witness ==
  /\ last.op = "update"
  /\ last.ret # last.r
  /\ getType(heap[last.ret]) # getType(heap[last.r])
  /\ "name" \in Fields(heap[last.ret]) \ Fields(heap[last.r])


(***************************************************************************)
(* A key set to undefined, checked under SpecValues.                       *)
(***************************************************************************)
\* C29: after setValue(r, k, undefined), getValue(r, k),
\* getLinkedRecordID(r, k) and getLinkedRecordIDs(r, k) return undefined,
\* as for a key never set, and none of them raises.
C29_UndefinedReadsUndefined ==
  (/\ last.op = "setValue"
   /\ last.v = JUndefined
   /\ ReadsLastWrite
   /\ obs.op \in {"getValue", "getLinkedRecordID", "getLinkedRecordIDs"}) =>
    obs.res = Return(JUndefined)

=============================================================================
